---- MODULE Spec2Model ----
(***************************************************************************)
(* The ETL batch job of docker_connect_sql_python: clear_folder,           *)
(* manage_tables, the three query runners, write_dataframe_to_db and       *)
(* write_local_txt_output, in the two variants the repository ships: the   *)
(* package (etl_pipeline/*.py driven by run_etl_as_package.py) and the     *)
(* single script (run_etl_as_script.py).                                   *)
(*                                                                         *)
(* Every handler is one action.  The file system, the database driver and  *)
(* pandas are modelled by what the calls the handlers make do; what the    *)
(* environment decides (which call fails, the order of a directory         *)
(* listing, what a query returns) is drawn with \E.                        *)
(***************************************************************************)
EXTENDS Integers, Sequences, FiniteSets, TLC

VARIABLES
    variant,    \* "package" or "script": which copy of the handlers runs
    gc,         \* how the interpreter frees objects: "refcount" or "deferred"
    pc,         \* the next step of the entry sequence
    fs,         \* the file system: path -> node, for the paths that exist
    db,         \* the committed state of the three summary tables
    openConns,  \* connections opened and not closed
    dfs,        \* the DataFrame each query runner returned (Unset before)
    op,         \* the handler that ran last
    trace,      \* the calls the last handler made on files and on the driver
    log,        \* the records the last handler logged
    ret,        \* what the last handler returned
    exc,        \* the exception that escaped the last handler, or "none"
    pre,        \* fs, db and openConns when the last handler was called
    faults      \* the calls the environment has made fail so far

vars == <<variant, gc, pc, fs, db, openConns, dfs, op, trace, log, ret, exc, pre, faults>>

\* ------------------------------------------------------------------------
\* Bounds of the model
\* ------------------------------------------------------------------------

\* The largest number of rows a query returns.
MaxRows == 2

\* The largest number of calls the environment makes fail in one run (a file
\* or folder operation refused, a driver call raising).
MaxFaults == 1

\* The environment may make a call fail only while the run has had fewer
\* than MaxFaults failures.
MayFail == faults < MaxFaults

\* ------------------------------------------------------------------------
\* Exceptions
\* ------------------------------------------------------------------------

\* The classes an `except` clause names, and the exceptions each catches.
Catches(clause, e) ==
    CASE clause = "Exception"         -> e # "none"
      [] clause = "pyodbc.Error"      -> e = "pyodbc.Error"
      [] clause = "FileNotFoundError" -> e = "FileNotFoundError"
      [] OTHER                        -> FALSE

Caught(clauses, e) == \E c \in clauses : Catches(c, e)

\* What open(path, 'r') can raise.
OpenErrors == {"FileNotFoundError", "PermissionError"}

\* ------------------------------------------------------------------------
\* The file system
\* ------------------------------------------------------------------------

NoData == <<>>
NoPath == <<>>

FileNode(data) == [kind |-> "file", target |-> NoPath, data |-> data]
DirNode        == [kind |-> "dir",  target |-> NoPath, data |-> NoData]
LinkNode(t)    == [kind |-> "link", target |-> t,      data |-> NoData]

IsPrefix(p, q) == Len(p) <= Len(q) /\ SubSeq(q, 1, Len(p)) = p

\* os.path.join(folder_path, item) for a relative item name.
Join(folder, name) == Append(folder, name)

Parent(p) == SubSeq(p, 1, Len(p) - 1)

\* os.listdir: the names directly under a directory.
Children(f, d) == {p \in DOMAIN f : Len(p) = Len(d) + 1 /\ IsPrefix(d, p)}

\* The paths strictly below p.
Below(f, p) == {q \in DOMAIN f : q # p /\ IsPrefix(p, q)}

\* os.path.islink does not follow the link; isfile and isdir do.
islink(f, p) == p \in DOMAIN f /\ f[p].kind = "link"

Resolve(f, p) == IF islink(f, p) THEN f[p].target ELSE p

isfile(f, p) == Resolve(f, p) \in DOMAIN f /\ f[Resolve(f, p)].kind = "file"

isdir(f, p) == Resolve(f, p) \in DOMAIN f /\ f[Resolve(f, p)].kind = "dir"

Without(f, gone) == [q \in DOMAIN f \ gone |-> f[q]]

\* os.unlink removes the one name.
unlink(f, p) == Without(f, {p})

\* shutil.rmtree removes the directory and all below it; links below it are
\* removed, not followed.
rmtree(f, p) == Without(f, {p} \cup Below(f, p))

\* The reports folder and what the run must leave alone beside it.
Reports == <<"reports">>
Other   == <<"other">>

\* What lies outside the folder d.
Outside(f, d) == [q \in {r \in DOMAIN f : ~IsPrefix(d, r)} |-> f[q]]

OutsideFs ==
    (Other :> DirNode) @@ (Join(Other, "o") :> FileNode(<<"o">>))

\* What the reports folder may hold when the run starts: a regular file, a
\* link (to a directory outside, or dangling), and a subdirectory with a file,
\* a link to outside and a nested directory.
Sub == Join(Reports, "d")

FileChoices == {<<>>, Join(Reports, "f") :> FileNode(<<"x">>)}

LinkChoices ==
    {<<>>, Join(Reports, "l") :> LinkNode(Other), Join(Reports, "l") :> LinkNode(<<"gone">>)}

SubContents ==
    {<<>>,
     (Sub :> DirNode) @@ (Join(Sub, "x") :> FileNode(<<"x">>))
        @@ (Join(Sub, "l") :> LinkNode(Other)) @@ (Join(Sub, "e") :> DirNode)}

InitialFs ==
    {OutsideFs} \cup
    { OutsideFs @@ (Reports :> DirNode) @@ f @@ l @@ sub :
        f \in FileChoices, l \in LinkChoices, sub \in SubContents }

\* ------------------------------------------------------------------------
\* Logging
\* ------------------------------------------------------------------------

Info(msg)  == [level |-> "INFO",  msg |-> msg]
Error(msg) == [level |-> "ERROR", msg |-> msg]

\* ------------------------------------------------------------------------
\* The calls a handler makes
\* ------------------------------------------------------------------------

\* A statement: one of the six table-management scripts, one of the three
\* queries, or the INSERT that write_dataframe_to_db builds.
NoStmt == [kind |-> "none", table |-> "", columns |-> <<>>, row |-> <<>>]
Script(kind, t) == [kind |-> kind, table |-> t, columns |-> <<>>, row |-> <<>>]
Insert(t, cols, row) == [kind |-> "insert", table |-> t, columns |-> cols, row |-> row]

\* One call a handler makes: open (a SQL file), connect, execute, fetchall,
\* commit.
Step(call, stmt) == [call |-> call, stmt |-> stmt]

\* A call on a path of the file system.
FsCall(call, path) ==
    [call |-> call, stmt |-> [kind |-> "path", table |-> "", columns |-> path, row |-> <<>>]]

\* A call made, with the exception it raised ("none": it returned).
Called(st, err) == [call |-> st.call, stmt |-> st.stmt, err |-> err]

\* Some call of the trace raised.
Failed(tr) == \E i \in 1..Len(tr) : tr[i].err # "none"

\* ------------------------------------------------------------------------
\* clear_folder
\* ------------------------------------------------------------------------

\* The orders in which os.listdir may return the children of a directory.
ListOrders(f, d) ==
    LET S == Children(f, d)
        n == Cardinality(S)
    IN  {s \in [1..n -> S] : \A i, j \in 1..n : s[i] = s[j] => i = j}

\* The test of the loop body without os.path.islink.
ItemAction_FilesOnly(f, p) ==
    IF isfile(f, p) THEN "unlink"
    ELSE IF isdir(f, p) THEN "rmtree"
    ELSE "skip"

\* The branch the loop body takes for an item.
ItemAction(f, p) ==
    IF isfile(f, p) \/ islink(f, p) THEN "unlink"
    ELSE IF isdir(f, p) THEN "rmtree"
    ELSE "skip"

\* The try statement put inside the loop body: an item that cannot be deleted
\* is noted and the loop goes on with the next.
RECURSIVE DeleteItems_continue(_, _, _, _)
DeleteItems_continue(r, order, i, failAt) ==
    IF i > Len(order) THEN r
    ELSE LET p == order[i]
             a == ItemAction(r.fs, p)
             e == IF i = failAt THEN "PermissionError"
                  ELSE IF a = "rmtree" /\ islink(r.fs, p) THEN "OSError"
                  ELSE "none"
         IN  IF a = "skip" THEN DeleteItems_continue(r, order, i + 1, failAt)
             ELSE IF e # "none"
                  THEN DeleteItems_continue(
                         [r EXCEPT !.trace = Append(@, Called(FsCall(a, p), e)),
                                   !.err = IF @ = "none" THEN e ELSE @,
                                   !.at = IF i = failAt THEN i ELSE @],
                         order, i + 1, failAt)
             ELSE DeleteItems_continue(
                    [r EXCEPT !.trace = Append(@, Called(FsCall(a, p), "none")),
                              !.fs = IF a = "unlink" THEN unlink(@, p) ELSE rmtree(@, p)],
                    order, i + 1, failAt)

\* The loop over the listing: items i..Len(order) in turn, stopping at the
\* first call that raises.  The environment makes the call for item failAt
\* fail; shutil.rmtree itself refuses a symbolic link.  r holds the file
\* system so far and the calls made.
RECURSIVE DeleteItems(_, _, _, _)
DeleteItems(r, order, i, failAt) ==
    IF i > Len(order) THEN r
    ELSE LET p == order[i]
             a == ItemAction(r.fs, p)
             e == IF i = failAt THEN "PermissionError"
                  ELSE IF a = "rmtree" /\ islink(r.fs, p) THEN "OSError"
                  ELSE "none"
         IN  IF a = "skip" THEN DeleteItems(r, order, i + 1, failAt)
             ELSE IF e # "none"
                  THEN [r EXCEPT !.trace = Append(@, Called(FsCall(a, p), e)),
                                 !.err = e,
                                 !.at = IF i = failAt THEN i ELSE 0]
             ELSE DeleteItems(
                    [r EXCEPT !.trace = Append(@, Called(FsCall(a, p), "none")),
                              !.fs = IF a = "unlink" THEN unlink(@, p) ELSE rmtree(@, p)],
                    order, i + 1, failAt)

\* What a shutil.rmtree of p that fails may already have removed: a set of
\* paths below p that holds, with a directory, all that was in it.
PartlyRemoved(f, p) ==
    {G \in SUBSET Below(f, p) : \A q \in G : Below(f, q) \subseteq G}

\* An except clause for a missing folder alone.
clear_folder_except_narrow == {"FileNotFoundError"}

\* The except clause of clear_folder.
clear_folder_except == {"Exception"}

ClearLog(err) ==
    <<Info("clear_folder: start")>> \o
    (IF err = "none" THEN <<Info("clear_folder: cleared")>>
     ELSE IF Caught(clear_folder_except, err) THEN <<Error("clear_folder: error")>>
     ELSE <<>>)

clear_folder(folder) ==
    \E lsErr \in {"none"} \cup (IF MayFail THEN {"PermissionError"} ELSE {}) :
      LET listed == IF ~isdir(fs, folder) THEN "FileNotFoundError" ELSE lsErr
          ls == Called(FsCall("listdir", folder), listed)
      IN  IF listed # "none"
          THEN /\ fs' = fs
               /\ faults' = faults + (IF listed = lsErr THEN 1 ELSE 0)
               /\ trace' = <<ls>>
               /\ exc' = IF Caught(clear_folder_except, listed) THEN "none" ELSE listed
               /\ log' = ClearLog(listed)
          ELSE \E order \in ListOrders(fs, folder),
                  failAt \in 0..(IF MayFail THEN Cardinality(Children(fs, folder)) ELSE 0) :
                 LET r == DeleteItems([fs |-> fs, trace |-> <<ls>>, err |-> "none", at |-> 0],
                                      order, 1, failAt)
                     part == IF r.at > 0 /\ ItemAction(r.fs, order[r.at]) = "rmtree"
                             THEN PartlyRemoved(r.fs, order[r.at]) ELSE {{}}
                 IN  \E gone \in part :
                       /\ fs' = Without(r.fs, gone)
                       /\ faults' = faults + (IF r.at > 0 THEN 1 ELSE 0)
                       /\ trace' = r.trace
                       /\ exc' = IF Caught(clear_folder_except, r.err) THEN "none" ELSE r.err
                       /\ log' = ClearLog(r.err)

\* ------------------------------------------------------------------------
\* The database driver
\* ------------------------------------------------------------------------

TableOrder ==
    <<"payment_summary_table", "duration_summary_table", "profitable_actors_table">>

Tables == {TableOrder[i] : i \in 1..Len(TableOrder)}

AbsentTable    == [exists |-> FALSE, rows |-> <<>>]
EmptyTable     == [exists |-> TRUE,  rows |-> <<>>]

\* An INSERT that leaves out a row the table already holds.
Apply_dedup(stmt, d) ==
    CASE stmt.kind = "drop"   -> [d EXCEPT ![stmt.table] = AbsentTable]
      [] stmt.kind = "create" -> [d EXCEPT ![stmt.table] = EmptyTable]
      [] stmt.kind = "insert" ->
           IF \E i \in 1..Len(d[stmt.table].rows) : d[stmt.table].rows[i] = stmt.row
           THEN d
           ELSE [d EXCEPT ![stmt.table].rows = Append(@, stmt.row)]
      [] OTHER                -> d

\* The effect of a statement on the tables, inside the transaction.
Apply(stmt, d) ==
    CASE stmt.kind = "drop"   -> [d EXCEPT ![stmt.table] = AbsentTable]
      [] stmt.kind = "create" -> [d EXCEPT ![stmt.table] = EmptyTable]
      [] stmt.kind = "insert" -> [d EXCEPT ![stmt.table].rows = Append(@, stmt.row)]
      [] OTHER                -> d

\* A statement the server rejects whatever the environment does: an INSERT
\* into a table that does not exist.
MustFail(st, d) ==
    st.call = "execute" /\ st.stmt.kind = "insert" /\ ~d[st.stmt.table].exists

\* The calls of plan from the i-th on, in order, up to the first that raises:
\* the call fault.at fails with fault.err by the environment's choice.  execute
\* changes the transaction's view of the tables, commit makes it the
\* committed state.
RECURSIVE RunPlan(_, _, _, _)
RunPlan(plan, i, fault, s) ==
    IF i > Len(plan) THEN s
    ELSE LET st == plan[i]
         IN  IF i = fault.at \/ MustFail(st, s.working)
             THEN LET e == IF i = fault.at THEN fault.err ELSE "pyodbc.Error"
                  IN  [s EXCEPT !.trace = Append(@, Called(st, e)),
                                !.fault = (i = fault.at),
                                !.err = e]
             ELSE RunPlan(plan, i + 1, fault,
                    [s EXCEPT !.trace = Append(@, Called(st, "none")),
                              !.working = IF st.call = "execute" THEN Apply(st.stmt, @) ELSE @,
                              !.committed = IF st.call = "commit" THEN s.working ELSE @,
                              !.connected = @ \/ st.call = "connect"])

Session(d) ==
    [committed |-> d, working |-> d, trace |-> <<>>, err |-> "none", connected |-> FALSE,
     fault |-> FALSE]

\* A handler with no finally clause.
Finally_skipped(s) == s

\* The finally clause `if 'connection' in locals() and connection:
\* connection.close()`: the close rolls back what was not committed.
Finally(s) ==
    IF s.connected
    THEN [s EXCEPT !.trace = Append(@, Called(Step("close", NoStmt), "none")),
                   !.working = s.committed, !.connected = FALSE]
    ELSE s

\* ------------------------------------------------------------------------
\* manage_tables
\* ------------------------------------------------------------------------

\* execute_sql_file, and the body of the loop over the files: open the file,
\* read it, execute it.
execute_sql_file(kind, t) == <<Step("open", Script(kind, t)), Step("execute", Script(kind, t))>>

Phase(kind) ==
    execute_sql_file(kind, TableOrder[1]) \o execute_sql_file(kind, TableOrder[2])
      \o execute_sql_file(kind, TableOrder[3])

\* The commit left out.
Commit_forgotten == <<>>

\* connection.commit().
Commit == <<Step("commit", NoStmt)>>
Connect == <<Step("connect", NoStmt)>>

\* The calls of manage_tables in the package: the six scripts, one commit.
manage_tables_package == Connect \o Phase("drop") \o Phase("create") \o Commit

\* The calls of manage_tables in the script: a commit after each phase.
manage_tables_script == Connect \o Phase("drop") \o Commit \o Phase("create") \o Commit

\* The two lists of sql_files taken in the other order: CREATE, then DROP.
manage_tables_plan_create_first ==
    Connect \o Phase("create") \o Phase("drop") \o Commit

\* The calls of manage_tables in the variant that runs.
manage_tables_plan ==
    IF variant = "package" THEN manage_tables_package ELSE manage_tables_script

\* An except clause for a missing file alone.
manage_tables_except_files_only == {"FileNotFoundError"}

\* The except clauses of manage_tables.
manage_tables_except ==
    IF variant = "package" THEN {"Exception"} ELSE {"pyodbc.Error", "FileNotFoundError"}

\* What a call raises when the environment makes it fail.
ErrorsOf(st) == IF st.call = "open" THEN OpenErrors ELSE {"pyodbc.Error"}

\* The environment's choice for a plan: no failure, or one call failing.
NoFault == [at |-> 0, err |-> "none"]

Faults(plan) ==
    {NoFault} \cup
    (IF MayFail
     THEN UNION {{[at |-> i, err |-> e] : e \in ErrorsOf(plan[i])} : i \in 1..Len(plan)}
     ELSE {})

\* A handler of the shape try: plan / except clauses: log / finally: close.
TryPlan(plan, fault, d) == Finally(RunPlan(plan, 1, fault, Session(d)))

HandlerLog(name, clauses, err) ==
    <<Info(name \o ": start")>> \o
    (IF err = "none" THEN <<Info(name \o ": success")>>
     ELSE IF Caught(clauses, err) THEN <<Error(name \o ": error")>>
     ELSE <<>>)

\* A handler whose except clauses log and raise again.
Escaping_reraise(clauses, err) == err

\* The exception that leaves the handler: none when a clause caught it.
Escaping(clauses, err) == IF Caught(clauses, err) THEN "none" ELSE err

manage_tables ==
    \E fault \in Faults(manage_tables_plan) :
      LET s == TryPlan(manage_tables_plan, fault, db)
      IN  /\ db' = s.committed
          /\ trace' = s.trace
          /\ log' = HandlerLog("manage_tables", manage_tables_except, s.err)
          /\ exc' = Escaping(manage_tables_except, s.err)
          /\ faults' = faults + (IF s.fault THEN 1 ELSE 0)
          /\ openConns' = openConns + (IF s.connected THEN 1 ELSE 0)

\* ------------------------------------------------------------------------
\* pandas: the DataFrame
\* ------------------------------------------------------------------------

Runners == {"payments", "duration", "profitable_actors"}

\* The column schema each runner declares.
Columns(q) ==
    CASE q = "payments" -> <<"Records", "Minimum", "Maximum", "Total", "Average">>
      [] q = "duration" -> <<"Minimum", "Maximum", "Total", "Average">>
      [] OTHER          -> <<"ActorID", "FirstName", "LastName", "TotalSale">>

DataFrame(cols, rows) == [bound |-> TRUE, columns |-> cols, rows |-> rows]

\* A local variable that was never assigned.
Unset == [bound |-> FALSE, columns |-> <<>>, rows |-> <<>>]

\* What a handler returns: None, a path or a DataFrame.
NoneRet    == [kind |-> "None", path |-> NoPath, df |-> Unset]
PathRet(p) == [kind |-> "path", path |-> p, df |-> Unset]
DfRet(df)  == [kind |-> "df", path |-> NoPath, df |-> df]

Built(df)  == [df |-> df, err |-> "none"]
Raised(e)  == [df |-> Unset, err |-> e]

\* The number of columns pandas finds in a list of row tuples.
Width(rows) == IF rows = <<>> THEN 0 ELSE Len(rows[1])

\* The labels 0, 1, 2, ... pandas gives the columns when none are passed.
RangeIndex == <<"0", "1", "2", "3", "4", "5">>

\* The labels put on the rows whatever their width.
pd_DataFrame_columns_relabel(rows, cols) == Built(DataFrame(cols, rows))

\* pd.DataFrame(rows, columns=cols): with rows, the number of columns passed
\* must be the number found; with no rows the frame is empty with cols.
pd_DataFrame_columns(rows, cols) ==
    IF rows # <<>> /\ Width(rows) # Len(cols) THEN Raised("ValueError")
    ELSE Built(DataFrame(cols, rows))

\* pd.DataFrame(rows): default labels, as many as the rows are wide.
pd_DataFrame(rows) == DataFrame(SubSeq(RangeIndex, 1, Width(rows)), rows)

\* The labels replaced whatever their number.
set_columns_unchecked(df, cols) == Built([df EXCEPT !.columns = cols])

\* df.columns = cols: the new labels must be as many as the old.
set_columns(df, cols) ==
    IF Len(df.columns) # Len(cols) THEN Raised("ValueError")
    ELSE Built([df EXCEPT !.columns = cols])

\* A frame that holds the fetched rows last to first.
make_dataframe_reversed(rows, cols) ==
    Built(DataFrame(cols, [i \in 1..Len(rows) |-> rows[Len(rows) - i + 1]]))

\* How a runner builds its result from the fetched rows.
make_dataframe(rows, cols) ==
    IF variant = "package" THEN pd_DataFrame_columns(rows, cols)
    ELSE set_columns(pd_DataFrame(rows), cols)

\* ------------------------------------------------------------------------
\* The query runners
\* ------------------------------------------------------------------------

\* A value of a row, by the characters of its string representation.
Digits == <<"1", "2", "3", "4", "5", "6">>

Cell(i, j) == <<Digits[i], Digits[j]>>

\* What a query may return: n rows of w values each.
QueryRows(n, w) == [i \in 1..n |-> [j \in 1..w |-> Cell(i, j)]]

\* The widths a query's result may have: that of the declared schema, or,
\* when the SQL file and the schema disagree, one less or one more.
Widths(q) == {Len(Columns(q)) - 1, Len(Columns(q)), Len(Columns(q)) + 1}

Query(q) == [kind |-> "select", table |-> q, columns |-> <<>>, row |-> <<>>]

\* execute_query of the package opens the file before it connects; the
\* runners of the script connect first.
runner_plan(q) ==
    IF variant = "package"
    THEN <<Step("open", Query(q)), Step("connect", NoStmt),
           Step("execute", Query(q)), Step("fetchall", NoStmt)>>
    ELSE <<Step("connect", NoStmt), Step("open", Query(q)),
           Step("execute", Query(q)), Step("fetchall", NoStmt)>>

\* The package's runners have no try statement; the script's catch
\* pyodbc.Error.
runner_except == IF variant = "package" THEN {} ELSE {"pyodbc.Error"}

\* The script's runners close the connection in a finally clause;
\* execute_query of the package never closes it.
runner_finally(s) == IF variant = "package" THEN s ELSE Finally(s)

\* `return payments_summary` after the try statement of the script: the name
\* is unbound when the try body raised before assigning it.
runner_return(clauses, built) ==
    IF built.err = "none" THEN "none"
    ELSE IF Caught(clauses, built.err)
         THEN (IF built.df.bound THEN "none" ELSE "UnboundLocalError")
         ELSE built.err

\* What cursor.fetchall() returned, as the trace keeps it.
Fetched(rows) == [kind |-> "rows", table |-> "", columns |-> <<>>, row |-> rows]

\* What the database answers a query that runs: n rows of w values.
Answers(q) == {QueryRows(n, w) : n \in 0..MaxRows, w \in Widths(q)}

Runner(q) ==
    \E fault \in Faults(runner_plan(q)) :
      LET s0 == RunPlan(runner_plan(q), 1, fault, Session(db))
          s  == runner_finally(s0)
      IN  \E rows \in (IF s0.err = "none" THEN Answers(q) ELSE {<<>>}) :
            LET built == IF s0.err = "none" THEN make_dataframe(rows, Columns(q))
                         ELSE Raised(s0.err)
                e == runner_return(runner_except, built)
                \* a connection nobody closed is closed when the interpreter
                \* frees it: at the return under reference counting, not
                \* within the run otherwise; the frame of a raised exception
                \* keeps it alive
                finalized == s.connected /\ e = "none" /\ gc = "refcount"
            IN  /\ trace' = IF s0.err = "none"
                             THEN [s.trace EXCEPT ![Len(runner_plan(q))].stmt = Fetched(rows)]
                             ELSE s.trace
                /\ log' = HandlerLog("calculate_" \o q, runner_except, built.err)
                /\ exc' = e
                /\ faults' = faults + (IF s0.fault THEN 1 ELSE 0)
                /\ ret' = IF e = "none" THEN DfRet(built.df) ELSE NoneRet
                /\ dfs' = IF e = "none" THEN [dfs EXCEPT ![q] = built.df] ELSE dfs
                /\ openConns' = openConns + (IF s.connected /\ ~finalized THEN 1 ELSE 0)

\* ------------------------------------------------------------------------
\* write_dataframe_to_db
\* ------------------------------------------------------------------------

TableOf(q) ==
    CASE q = "payments" -> "payment_summary_table"
      [] q = "duration" -> "duration_summary_table"
      [] OTHER          -> "profitable_actors_table"

\* The loop over dataframe.iterrows(): one INSERT per row, in row order.
RECURSIVE Inserts(_, _, _)
Inserts(df, table, i) ==
    IF i > Len(df.rows) THEN <<>>
    ELSE <<Step("execute", Insert(table, df.columns, df.rows[i]))>>
           \o Inserts(df, table, i + 1)

\* The commit indented into the loop: one commit per row.
RECURSIVE InsertsCommitted(_, _, _)
InsertsCommitted(df, table, i) ==
    IF i > Len(df.rows) THEN <<>>
    ELSE <<Step("execute", Insert(table, df.columns, df.rows[i]))>> \o Commit
           \o InsertsCommitted(df, table, i + 1)

write_dataframe_to_db_plan_commit_in_loop(df, table) ==
    Connect \o InsertsCommitted(df, table, 1)

\* A connection opened with autocommit: every INSERT made durable at once.
write_dataframe_to_db_plan_autocommit(df, table) ==
    Connect \o InsertsCommitted(df, table, 1) \o Commit

\* The calls of write_dataframe_to_db: connect, the INSERTs, one commit.
write_dataframe_to_db_plan(df, table) == Connect \o Inserts(df, table, 1) \o Commit

\* An except clause that no database error matches.
write_dataframe_to_db_except_files_only == {"FileNotFoundError"}

\* The except clause of write_dataframe_to_db.
write_dataframe_to_db_except ==
    IF variant = "package" THEN {"Exception"} ELSE {"pyodbc.Error"}

write_dataframe_to_db(df, table) ==
    \E fault \in Faults(write_dataframe_to_db_plan(df, table)) :
      LET s == TryPlan(write_dataframe_to_db_plan(df, table), fault, db)
      IN  /\ db' = s.committed
          /\ trace' = s.trace
          /\ log' = HandlerLog("write_dataframe_to_db", write_dataframe_to_db_except, s.err)
          /\ exc' = Escaping(write_dataframe_to_db_except, s.err)
          /\ faults' = faults + (IF s.fault THEN 1 ELSE 0)
          /\ openConns' = openConns + (IF s.connected THEN 1 ELSE 0)

\* ------------------------------------------------------------------------
\* pandas: DataFrame.to_csv(file_path, sep='\t', index=False)
\* ------------------------------------------------------------------------

TAB   == "\t"
QUOTE == "\""
NL    == "\n"

\* A NULL of the database (None in the row, NaN or None in the frame).
Null == <<"<NA>">>

\* str(value).
Str(v) == IF v = Null THEN <<"N", "o", "n", "e">> ELSE v

\* csv.QUOTE_MINIMAL: a field is quoted when it holds the separator, the
\* quote character or the line terminator.
NeedsQuote(v) == \E i \in 1..Len(v) : v[i] \in {TAB, QUOTE, NL}

\* doublequote=True: a quote character inside a quoted field is written twice.
RECURSIVE DoubleQuotes(_)
DoubleQuotes(v) ==
    IF v = <<>> THEN <<>>
    ELSE (IF Head(v) = QUOTE THEN <<QUOTE, QUOTE>> ELSE <<Head(v)>>) \o DoubleQuotes(Tail(v))

\* quoting=csv.QUOTE_ALL: every field quoted.
Field_quote_all(v) ==
    IF v = Null THEN <<QUOTE, QUOTE>> ELSE <<QUOTE>> \o DoubleQuotes(v) \o <<QUOTE>>

\* One field of the file: na_rep='' for a missing value, quoted when needed.
Field(v) ==
    IF v = Null THEN <<>>
    ELSE IF NeedsQuote(v) THEN <<QUOTE>> \o DoubleQuotes(v) \o <<QUOTE>>
    ELSE v

RECURSIVE TabJoin(_)
TabJoin(fields) ==
    IF fields = <<>> THEN <<>>
    ELSE IF Len(fields) = 1 THEN fields[1]
    ELSE fields[1] \o <<TAB>> \o TabJoin(Tail(fields))

\* One record of the file: the fields, tab-separated, and the line terminator.
Line(values) == TabJoin([i \in 1..Len(values) |-> Field(values[i])]) \o <<NL>>

\* The header holds the column labels (index=False: no index column).
Header(df) == Line([i \in 1..Len(df.columns) |-> <<df.columns[i]>>])

RECURSIVE Records(_, _)
Records(df, i) ==
    IF i > Len(df.rows) THEN <<>> ELSE Line(df.rows[i]) \o Records(df, i + 1)

\* index=True, the default of to_csv: an index column, with an empty label.
RECURSIVE RecordsWithIndex(_, _)
RecordsWithIndex(df, i) ==
    IF i > Len(df.rows) THEN <<>>
    ELSE Line(<<<<RangeIndex[i]>>>> \o df.rows[i]) \o RecordsWithIndex(df, i + 1)

to_csv_with_index(df) ==
    Line(<<<<>>>> \o [i \in 1..Len(df.columns) |-> <<df.columns[i]>>])
      \o RecordsWithIndex(df, 1)

\* The text of the file: the header, then one record per row, in row order.
to_csv(df) == Header(df) \o Records(df, 1)

\* ------------------------------------------------------------------------
\* write_local_txt_output
\* ------------------------------------------------------------------------

FileOf(q) ==
    CASE q = "payments" -> "payment_summary.txt"
      [] q = "duration" -> "duration_summary.txt"
      [] OTHER          -> "profitable_actors.txt"

\* The folder taken to be there.
makedirs_skipped(f, folder) == [fs |-> f, err |-> "none"]

\* os.makedirs(folder_path, exist_ok=True).
makedirs(f, folder) ==
    IF folder \in DOMAIN f
    THEN (IF isdir(f, folder) THEN [fs |-> f, err |-> "none"]
          ELSE [fs |-> f, err |-> "FileExistsError"])
    ELSE [fs |-> (folder :> DirNode) @@ f, err |-> "none"]

\* The file with the given content written over whatever the path held.
WriteFile(f, p, data) == (p :> FileNode(data)) @@ f

\* An except clause for a missing path alone.
write_local_txt_output_except_narrow == {"FileNotFoundError"}

\* The except clause of write_local_txt_output.
write_local_txt_output_except == {"Exception"}

\* The environment may fail the folder creation, the opening of the file, or
\* a write after the file was opened (which leaves the file cut short).
write_local_txt_output(df, folder_path, file_name) ==
    \E fail \in {"none"} \cup (IF MayFail THEN {"makedirs", "open", "write"} ELSE {}) :
      LET made == IF fail = "makedirs" THEN [fs |-> fs, err |-> "PermissionError"]
                  ELSE makedirs(fs, folder_path)
          file_path == Join(folder_path, file_name)
          err == IF made.err # "none" THEN made.err
                 ELSE IF fail \in {"open", "write"} THEN "OSError" ELSE "none"
          cut == {<<>>, Header(df)}
      IN  \E partial \in (IF fail = "write" /\ made.err = "none" THEN cut ELSE {<<>>}) :
            /\ faults' = faults + (IF fail = "none" THEN 0 ELSE 1)
            /\ fs' = IF made.err # "none" \/ fail = "open" THEN made.fs
                     ELSE IF fail = "write" THEN WriteFile(made.fs, file_path, partial)
                     ELSE WriteFile(made.fs, file_path, to_csv(df))
            /\ trace' = <<Called(FsCall("makedirs", folder_path), made.err)>> \o
                         (IF made.err = "none"
                          THEN <<Called(FsCall("to_csv", file_path), err)>> ELSE <<>>)
            /\ log' = HandlerLog("write_local_txt_output", write_local_txt_output_except, err)
            /\ exc' = Escaping(write_local_txt_output_except, err)
            /\ ret' = IF err = "none" THEN PathRet(file_path) ELSE NoneRet

\* ------------------------------------------------------------------------
\* The entry sequence
\* ------------------------------------------------------------------------

\* The calls of __main__ with a DB write moved up, before the last runner.
StepOrder_write_early ==
    <<"clear_folder", "manage_tables",
      "calculate_payments", "calculate_duration", "write_db_payments",
      "calculate_profitable_actors", "write_db_duration", "write_db_profitable_actors",
      "write_txt_payments", "write_txt_duration", "write_txt_profitable_actors",
      "done">>

\* The calls of __main__, in the order of the source.
StepOrder ==
    <<"clear_folder", "manage_tables",
      "calculate_payments", "calculate_duration", "calculate_profitable_actors",
      "write_db_payments", "write_db_duration", "write_db_profitable_actors",
      "write_txt_payments", "write_txt_duration", "write_txt_profitable_actors",
      "done">>

IndexOf(name) == CHOOSE i \in 1..Len(StepOrder) : StepOrder[i] = name

\* The statement after a call: the next call when the call returned, none
\* when an exception escaped it (the process ends with a traceback).
Advance(name) ==
    /\ pc = name
    /\ op' = name
    /\ pre' = [fs |-> fs, db |-> db, openConns |-> openConns]
    /\ pc' = IF exc' = "none" THEN StepOrder[IndexOf(name) + 1] ELSE "crashed"
    /\ UNCHANGED <<variant, gc>>

call_clear_folder ==
    /\ pc = "clear_folder"
    /\ clear_folder(Reports)
    /\ ret' = NoneRet
    /\ UNCHANGED <<db, openConns, dfs>>
    /\ Advance("clear_folder")

call_manage_tables ==
    /\ pc = "manage_tables"
    /\ manage_tables
    /\ ret' = NoneRet
    /\ UNCHANGED <<fs, dfs>>
    /\ Advance("manage_tables")

calculate_payments ==
    /\ pc = "calculate_payments"
    /\ Runner("payments")
    /\ UNCHANGED <<fs, db>>
    /\ Advance("calculate_payments")

calculate_duration ==
    /\ pc = "calculate_duration"
    /\ Runner("duration")
    /\ UNCHANGED <<fs, db>>
    /\ Advance("calculate_duration")

calculate_profitable_actors ==
    /\ pc = "calculate_profitable_actors"
    /\ Runner("profitable_actors")
    /\ UNCHANGED <<fs, db>>
    /\ Advance("calculate_profitable_actors")

call_write_dataframe_to_db(q) ==
    /\ pc = "write_db_" \o q
    /\ write_dataframe_to_db(dfs[q], TableOf(q))
    /\ ret' = NoneRet
    /\ UNCHANGED <<fs, dfs>>
    /\ Advance("write_db_" \o q)

call_write_local_txt_output(q) ==
    /\ pc = "write_txt_" \o q
    /\ write_local_txt_output(dfs[q], Reports, FileOf(q))
    /\ UNCHANGED <<db, openConns, dfs>>
    /\ Advance("write_txt_" \o q)

\* The tables before the run: not there, there and empty, or there with a row
\* of an earlier run.
StaleRow == <<<<"s">>>>

InitialDb ==
    { [t \in Tables |-> tab] :
        tab \in {AbsentTable, EmptyTable, [exists |-> TRUE, rows |-> <<StaleRow>>]} }

\* The package never closes a runner's connection, so when it is closed is
\* the interpreter's choice; the script closes every connection itself.
Builds == {<<"package", "refcount">>, <<"package", "deferred">>, <<"script", "refcount">>}

Init ==
    /\ \E b \in Builds : variant = b[1] /\ gc = b[2]
    /\ pc = "clear_folder"
    /\ fs \in InitialFs
    /\ db \in InitialDb
    /\ openConns = 0
    /\ dfs = [q \in Runners |-> Unset]
    /\ op = "none"
    /\ trace = <<>>
    /\ log = <<>>
    /\ ret = NoneRet
    /\ exc = "none"
    /\ pre = [fs |-> fs, db |-> db, openConns |-> openConns]
    /\ faults = 0

write_db_payments == call_write_dataframe_to_db("payments")
write_db_duration == call_write_dataframe_to_db("duration")
write_db_profitable_actors == call_write_dataframe_to_db("profitable_actors")

write_txt_payments == call_write_local_txt_output("payments")
write_txt_duration == call_write_local_txt_output("duration")
write_txt_profitable_actors == call_write_local_txt_output("profitable_actors")

Next ==
    \/ call_clear_folder
    \/ call_manage_tables
    \/ calculate_payments
    \/ calculate_duration
    \/ calculate_profitable_actors
    \/ write_db_payments
    \/ write_db_duration
    \/ write_db_profitable_actors
    \/ write_txt_payments
    \/ write_txt_duration
    \/ write_txt_profitable_actors

Spec == Init /\ [][Next]_vars

\* ------------------------------------------------------------------------
\* write_local_txt_output on its own, over the frames a runner can return
\* ------------------------------------------------------------------------

\* The longest string a value of a frame holds.
MaxStrLen == 2

\* The characters of a value: a plain one and the three the writer treats
\* specially.
Alphabet == {"a", TAB, QUOTE, NL}

Strings == UNION {[1..n -> Alphabet] : n \in 0..MaxStrLen}

Values == Strings \cup {Null}

\* The frames of a runner's schema: up to MaxRows rows of distinct plain
\* values, with any one value replaced by any of Values.
Frames(q) ==
    LET k == Len(Columns(q))
    IN  UNION { {DataFrame(Columns(q), QueryRows(n, k))} \cup
                {DataFrame(Columns(q), [QueryRows(n, k) EXCEPT ![i][j] = v]) :
                   i \in 1..n, j \in 1..k, v \in Values}
              : n \in 0..MaxRows }

FileInit ==
    /\ variant \in {"package", "script"}
    /\ gc = "refcount"
    /\ \E q \in Runners :
         /\ pc = "write_txt_" \o q
         /\ \E df \in Frames(q) : dfs = [r \in Runners |-> IF r = q THEN df ELSE Unset]
    /\ fs \in {OutsideFs, OutsideFs @@ (Reports :> DirNode)}
    /\ db = [t \in Tables |-> EmptyTable]
    /\ openConns = 0
    /\ op = "none"
    /\ trace = <<>>
    /\ log = <<>>
    /\ ret = NoneRet
    /\ exc = "none"
    /\ pre = [fs |-> fs, db |-> db, openConns |-> openConns]
    /\ faults = 0

export_payments == dfs["payments"].bound /\ call_write_local_txt_output("payments")
export_duration == dfs["duration"].bound /\ call_write_local_txt_output("duration")
export_profitable_actors ==
    dfs["profitable_actors"].bound /\ call_write_local_txt_output("profitable_actors")

FileNext == export_payments \/ export_duration \/ export_profitable_actors

FileSpec == FileInit /\ [][FileNext]_vars

\* ------------------------------------------------------------------------
\* Properties
\* ------------------------------------------------------------------------

HasError(l) == \E i \in 1..Len(l) : l[i].level = "ERROR"

\* The calls of a trace that are of the given kinds, in order.
CallsOf(tr, kinds) == SelectSeq(tr, LAMBDA c : c.call \in kinds)

\* The folder exists and nothing is in it.
Emptied(f, d) == d \in DOMAIN f /\ f[d].kind = "dir" /\ Below(f, d) = {}

ListingFailed  == trace[1].err # "none"
DeletionFailed == trace[1].err = "none" /\ Failed(trace)

DropScripts ==
    [i \in 1..3 |-> Called(Step("execute", Script("drop", TableOrder[i])), "none")]

CreateScripts ==
    [i \in 1..3 |-> Called(Step("execute", Script("create", TableOrder[i])), "none")]

Committed == <<Called(Step("commit", NoStmt), "none")>>

\* C3: a successful manage_tables executes the three DROP scripts in the order
\* payment, duration, profitable_actors, commits, executes the three CREATE
\* scripts in the same order and commits again: two commits, the first before
\* any CREATE.  (Fails in the package, which commits once, after all six.)
C3_TwoCommits ==
    (op = "manage_tables" /\ exc = "none" /\ ~Failed(trace))
      => CallsOf(trace, {"execute", "commit"})
           = DropScripts \o Committed \o CreateScripts \o Committed

\* The INSERT the claim expects for row i of the frame of runner q.
ExpectedInsert(q, i) ==
    Called(Step("execute", Insert(TableOf(q), Columns(q), dfs[q].rows[i])), "none")

\* C4: write_dataframe_to_db given n rows (n >= 0) and no database error
\* executes exactly n INSERT statements, one per row in row order, and then
\* exactly one commit after the last INSERT; for n = 0, no INSERT and one
\* commit.
C4_InsertsThenOneCommit ==
    \A q \in Runners :
      (op = "write_db_" \o q /\ ~Failed(trace))
        => CallsOf(trace, {"execute", "commit"})
             = [i \in 1..Len(dfs[q].rows) |-> ExpectedInsert(q, i)] \o Committed

\* A frame of two rows was written with no database error.
C4_Witness ==
    /\ op = "write_db_payments" /\ ~Failed(trace) /\ Len(dfs["payments"].rows) = 2
    /\ Len(db["payment_summary_table"].rows) = 2

\* C5: write_local_txt_output never raises; with no error it returns the
\* destination directory joined with the file name; on an error in the folder
\* creation or the writing it logs the error and returns None; it returns a
\* path only if the file was written.
C5_PathOrNone ==
    \A q \in Runners :
      op = "write_txt_" \o q
        => /\ exc = "none"
           /\ (~Failed(trace) => ret = PathRet(<<"reports", FileOf(q)>>))
           /\ (Failed(trace) => ret = NoneRet /\ HasError(log))
           /\ (ret.kind = "path"
                 => /\ ret.path \in DOMAIN fs
                    /\ fs[ret.path] = FileNode(to_csv(dfs[q])))

\* A write failed after the file was opened: None was returned.
C5_Witness ==
    /\ op = "write_txt_payments" /\ Failed(trace) /\ ret = NoneRet /\ exc = "none"
    /\ <<"reports", "payment_summary.txt">> \in DOMAIN fs

\* The arity each runner declares.
Arity(q) == CASE q = "payments" -> 5 [] q = "duration" -> 4 [] OTHER -> 4

\* C8: every DataFrame a query runner returned has exactly k values in every
\* row: 5 for calculate_payments, 4 for calculate_duration and for
\* calculate_profitable_actors.
C8_RowArity ==
    \A q \in Runners :
      dfs[q].bound =>
        /\ Len(dfs[q].columns) = Arity(q)
        /\ \A i \in 1..Len(dfs[q].rows) : Len(dfs[q].rows[i]) = Arity(q)

\* calculate_payments returned a frame of two rows.
C8_Witness ==
    /\ op = "calculate_payments" /\ ret.kind = "df"
    /\ dfs["payments"].bound /\ Len(dfs["payments"].rows) = 2

RunnerOps == {"calculate_" \o q : q \in Runners}

\* The failures C9 names: the SQL file does not exist, the connection cannot
\* be made, the statement fails.
C9_NamedFailure ==
    \E i \in 1..Len(trace) :
      \/ trace[i].call = "open" /\ trace[i].err = "FileNotFoundError"
      \/ trace[i].call \in {"connect", "execute"} /\ trace[i].err = "pyodbc.Error"

\* C9: a query runner given a nonexistent SQL file, or hitting a connection
\* error or a statement-execution error, logs an error and returns to its
\* caller with no exception escaping.  (Fails: the package's runners catch
\* nothing; the script's let FileNotFoundError through and raise
\* UnboundLocalError after a caught pyodbc.Error.)
C9_RunnerNeverRaises ==
    (op \in RunnerOps /\ C9_NamedFailure) => (exc = "none" /\ HasError(log))

\* C10: after a query runner ends, on any path, as many connections are open
\* as before it started.  (Fails in the package: execute_query never closes
\* its connection.)
C10_RunnerClosesConnection ==
    op \in RunnerOps => openConns = pre.openConns

\* ------------------------------------------------------------------------
\* The file read back
\* ------------------------------------------------------------------------

\* s cut at every sep.
RECURSIVE Split(_, _)
Split(s, sep) ==
    IF \A i \in 1..Len(s) : s[i] # sep THEN <<s>>
    ELSE LET i == CHOOSE i \in 1..Len(s) : s[i] = sep /\ \A j \in 1..(i - 1) : s[j] # sep
         IN  <<SubSeq(s, 1, i - 1)>> \o Split(SubSeq(s, i + 1, Len(s)), sep)

\* The lines of a text: what precedes each line feed, and what follows the
\* last one when that is not empty.
Lines(data) ==
    LET parts == Split(data, NL)
    IN  IF parts[Len(parts)] = <<>> THEN SubSeq(parts, 1, Len(parts) - 1) ELSE parts

\* The file re-read: the first line dropped, every other line split on tab.
ReadBack(data) ==
    LET L == Lines(data) IN [i \in 1..(Len(L) - 1) |-> Split(L[i + 1], TAB)]

\* No value of the frame holds a tab, a double quote or a line feed.
PlainFrame(df) ==
    \A i \in 1..Len(df.rows) : \A j \in 1..Len(df.rows[i]) :
      \A c \in 1..Len(df.rows[i][j]) : df.rows[i][j][c] \notin {TAB, QUOTE, NL}

NoNulls(df) ==
    \A i \in 1..Len(df.rows) : \A j \in 1..Len(df.rows[i]) : df.rows[i][j] # Null

\* A value as the claim expects it in the file, a null being an empty field.
Written(v) == IF v = Null THEN <<>> ELSE v

\* The n + 1 lines C6 expects for a frame.
ExpectedLines(df) ==
    <<TabJoin([j \in 1..Len(df.columns) |-> <<df.columns[j]>>])>> \o
    [i \in 1..Len(df.rows) |-> TabJoin([j \in 1..Len(df.rows[i]) |-> Written(df.rows[i][j])])]

\* C6 as stated: for every frame of n rows and k columns the file written
\* holds exactly n + 1 lines, the k column names joined by tabs and then each
\* row's k values joined by tabs, in row order, with no index column.  (Fails
\* for a value that holds a line feed, a tab or a double quote.)
C6_AsStated ==
    \A q \in Runners :
      (op = "write_txt_" \o q /\ ret.kind = "path")
        => Lines(fs[ret.path].data) = ExpectedLines(dfs[q])

\* C6 amended: for every frame of n rows and k columns whose values hold no
\* tab, line feed or double quote, the file written holds exactly n + 1
\* lines, the k column names joined by tabs and then each row's k values
\* joined by tabs (a null as an empty field), in row order, with no index
\* column.
C6_PlainLines ==
    \A q \in Runners :
      (op = "write_txt_" \o q /\ ret.kind = "path" /\ PlainFrame(dfs[q]))
        => /\ Len(Lines(fs[ret.path].data)) = Len(dfs[q].rows) + 1
           /\ Lines(fs[ret.path].data) = ExpectedLines(dfs[q])

\* A frame of one row was written: the file has two lines.
C6_Witness ==
    /\ op = "write_txt_payments" /\ ret.kind = "path"
    /\ Len(dfs["payments"].rows) = 1 /\ PlainFrame(dfs["payments"])
    /\ Len(Lines(fs[ret.path].data)) = 2

\* The string representations of the rows of a frame.
RowStrings(df) ==
    [i \in 1..Len(df.rows) |-> [j \in 1..Len(df.rows[i]) |-> Str(df.rows[i][j])]]

\* C7 as stated: for every frame, the file written, re-read by dropping the
\* first line and splitting every other line on tab, gives the string
\* representation of every row's values, in row order.  (Fails for a value
\* that holds a tab, a line feed or a double quote, and for a null.)
C7_AsStated ==
    \A q \in Runners :
      (op = "write_txt_" \o q /\ ret.kind = "path")
        => ReadBack(fs[ret.path].data) = RowStrings(dfs[q])

\* C7 amended: for every frame with no null and no value that holds a tab, a
\* line feed or a double quote, the file written, re-read by dropping the
\* first line and splitting every other line on tab, gives the string
\* representation of every row's values, in row order.
C7_RoundTrip ==
    \A q \in Runners :
      (op = "write_txt_" \o q /\ ret.kind = "path"
         /\ PlainFrame(dfs[q]) /\ NoNulls(dfs[q]))
        => ReadBack(fs[ret.path].data) = RowStrings(dfs[q])

\* A frame of two different rows was written and read back.
C7_Witness ==
    /\ op = "write_txt_profitable_actors" /\ ret.kind = "path"
    /\ PlainFrame(dfs["profitable_actors"]) /\ NoNulls(dfs["profitable_actors"])
    /\ Len(dfs["profitable_actors"].rows) = 2
    /\ dfs["profitable_actors"].rows[1] # dfs["profitable_actors"].rows[2]
    /\ Len(ReadBack(fs[ret.path].data)) = 2

\* ------------------------------------------------------------------------
\* The entry sequence as a whole
\* ------------------------------------------------------------------------

\* The eleven steps in the order the claims give them.
ElevenSteps ==
    <<"clear_folder", "manage_tables",
      "calculate_payments", "calculate_duration", "calculate_profitable_actors",
      "write_db_payments", "write_db_duration", "write_db_profitable_actors",
      "write_txt_payments", "write_txt_duration", "write_txt_profitable_actors">>

\* The place of a step among the eleven; 0 before the first step.
Place(name) ==
    IF name = "none" THEN 0
    ELSE CHOOSE i \in 1..Len(ElevenSteps) : ElevenSteps[i] = name

\* C11: the pipeline is best-effort sequential: whatever happened inside a
\* step, the next step of the sequence is attempted, so a run never stops
\* before all eleven steps were attempted.  (Fails: an exception that escapes
\* a query runner, or a PermissionError on a script file in the script's
\* manage_tables, ends the process with the later steps never attempted.)
C11_BestEffort ==
    op # "none" =>
      pc = (IF Place(op) = Len(ElevenSteps) THEN "done" ELSE ElevenSteps[Place(op) + 1])

\* C12: the steps start in the order clear_folder, manage_tables, the three
\* query runners, the three write_dataframe_to_db calls, the three
\* write_local_txt_output calls: each step that starts is the successor, in
\* that order, of the step that started last, so no DB write starts before
\* the three runners have returned and no file write before the three DB
\* writes have returned.
C12_StepOrder ==
    [][op' # op => /\ Place(op') = Place(op) + 1
                   /\ pc = op'
                   /\ (op # "none" => exc = "none")]_vars

\* A run in which all eleven steps started and returned.
C12_Witness ==
    /\ pc = "done" /\ op = "write_txt_profitable_actors"
    /\ \A q \in Runners : dfs[q].bound

\* ------------------------------------------------------------------------
\* manage_tables and write_dataframe_to_db: failures and the connection
\* ------------------------------------------------------------------------

\* The call at position i of the trace is of the given kind and ended with err.
Ended(i, call, err) == trace[i].call = call /\ trace[i].err = err

\* The last handler opened a connection.
Connected == \E i \in 1..Len(trace) : Ended(i, "connect", "none")

\* The last call of the handler was a close, and it was the only one.
ClosedLast ==
    /\ trace # <<>>
    /\ Ended(Len(trace), "close", "none")
    /\ Len(CallsOf(trace, {"close"})) = 1

\* No script or statement was run after the call at position i.
NothingRunAfter(i) ==
    \A j \in (i + 1)..Len(trace) : trace[j].call \notin {"open", "execute", "commit"}

\* C13: manage_tables closes its connection on every path: when it opened a
\* connection, that connection is closed when manage_tables returns or fails
\* (all six statements run, a SQL file missing, a statement failed, a commit
\* failed), and it tries to connect once per call.
C13_ManageTablesCloses ==
    op = "manage_tables"
      => /\ openConns = pre.openConns
         /\ Len(CallsOf(trace, {"connect"})) = 1
         /\ (Connected => ClosedLast)
         /\ (~Connected => CallsOf(trace, {"close"}) = <<>>)

\* manage_tables opened a connection, a commit failed, and the connection
\* was closed.
C13_Witness ==
    /\ op = "manage_tables" /\ Connected /\ ClosedLast
    /\ \E i \in 1..Len(trace) : Ended(i, "commit", "pyodbc.Error")
    /\ openConns = pre.openConns

CreateFailedAfterDrops ==
    /\ op = "manage_tables"
    /\ \A t \in Tables :
         \E i \in 1..Len(trace) :
           Ended(i, "execute", "none") /\ trace[i].stmt = Script("drop", t)
    /\ \E i \in 1..Len(trace) :
         Ended(i, "execute", "pyodbc.Error") /\ trace[i].stmt.kind = "create"

\* C16: when the three DROP statements succeed and a later CREATE statement
\* fails, the effect of the three DROPs is committed when manage_tables
\* returns: the three tables are gone.  (Fails in the package, which commits
\* once, after the CREATEs: the close rolls the DROPs back.)
C16_DropsSurvive ==
    CreateFailedAfterDrops => \A t \in Tables : ~db[t].exists

\* ------------------------------------------------------------------------
\* manage_tables called twice in immediate succession
\* ------------------------------------------------------------------------

ResetInit ==
    /\ variant \in {"package", "script"}
    /\ gc = "refcount"
    /\ pc = "reset"
    /\ fs = OutsideFs
    /\ db \in InitialDb
    /\ openConns = 0
    /\ dfs = [q \in Runners |-> Unset]
    /\ op = "none"
    /\ trace = <<>>
    /\ log = <<>>
    /\ ret = NoneRet
    /\ exc = "none"
    /\ pre = [fs |-> fs, db |-> db, openConns |-> openConns]
    /\ faults = 0

\* One call of manage_tables(connection_string) by a caller at `from`.
reset_call(from, to) ==
    /\ pc = from
    /\ manage_tables
    /\ op' = "manage_tables"
    /\ pre' = [fs |-> fs, db |-> db, openConns |-> openConns]
    /\ pc' = IF exc' = "none" THEN to ELSE "crashed"
    /\ ret' = NoneRet
    /\ UNCHANGED <<variant, gc, fs, dfs>>

first_manage_tables == reset_call("reset", "reset_again")

second_manage_tables == reset_call("reset_again", "reset_twice")

ResetNext == first_manage_tables \/ second_manage_tables

ResetTwiceSpec == ResetInit /\ [][ResetNext]_vars

AllEmpty == [t \in Tables |-> EmptyTable]

\* C17: manage_tables run twice in immediate succession, with nothing failing
\* in the environment and DROP scripts that accept an absent table, ends both
\* times in the same database state, the three tables existing and empty,
\* and the second run logs no error.
C17_Idempotent ==
    (pc = "reset_twice" /\ faults = 0)
      => /\ pre.db = AllEmpty
         /\ db = AllEmpty
         /\ exc = "none"
         /\ ~HasError(log)

\* manage_tables ran twice with no failure: the second run dropped the tables
\* the first had created and created them again.
C17_Witness ==
    /\ pc = "reset_twice" /\ faults = 0 /\ ~Failed(trace)
    /\ pre.db = AllEmpty /\ db = AllEmpty
    /\ Len(CallsOf(trace, {"execute"})) = 6

\* ------------------------------------------------------------------------
\* write_dataframe_to_db called twice with the same frame
\* ------------------------------------------------------------------------

\* The frames of n rows the three runners return, for the same n.
SameFrames ==
    { [q \in Runners |-> DataFrame(Columns(q), QueryRows(n, Len(Columns(q))))] :
        n \in 0..MaxRows }

WriteInit ==
    /\ variant \in {"package", "script"}
    /\ gc = "refcount"
    /\ pc = "write"
    /\ fs = OutsideFs
    /\ db \in InitialDb
    /\ openConns = 0
    /\ dfs \in SameFrames
    /\ op = "none"
    /\ trace = <<>>
    /\ log = <<>>
    /\ ret = NoneRet
    /\ exc = "none"
    /\ pre = [fs |-> fs, db |-> db, openConns |-> openConns]
    /\ faults = 0

\* One call of write_dataframe_to_db for the frame of runner q.
write_call(q, from, to) ==
    /\ pc = from
    /\ write_dataframe_to_db(dfs[q], TableOf(q))
    /\ op' = "write_db_" \o q
    /\ pc' = IF exc' = "none" THEN to ELSE "crashed"
    /\ ret' = NoneRet
    /\ UNCHANGED <<variant, gc, fs, dfs>>

\* The first call; pre keeps the state before the two calls.
first_write ==
    \E q \in Runners :
      /\ write_call(q, "write", "write_again")
      /\ pre' = [fs |-> fs, db |-> db, openConns |-> openConns]

\* The same call again, with no manage_tables in between.
second_write ==
    \E q \in Runners :
      /\ op = "write_db_" \o q
      /\ write_call(q, "write_again", "written_twice")
      /\ pre' = pre

WriteNext == first_write \/ second_write

WriteTwiceSpec == WriteInit /\ [][WriteNext]_vars

\* C18: write_dataframe_to_db only appends: the rows the table held before
\* are still there, in place, after any number of calls, and two calls with
\* the same frame of n rows, with nothing failing and no manage_tables in
\* between, leave the table with its prior rows followed by 2n new rows, the
\* other tables as they were.
C18_AppendOnly ==
    /\ \A t \in Tables : IsPrefix(pre.db[t].rows, db[t].rows)
    /\ \A q \in Runners :
         (pc = "written_twice" /\ op = "write_db_" \o q /\ faults = 0
            /\ pre.db[TableOf(q)].exists)
           => /\ db[TableOf(q)].rows
                   = pre.db[TableOf(q)].rows \o dfs[q].rows \o dfs[q].rows
              /\ \A t \in Tables \ {TableOf(q)} : db[t] = pre.db[t]

\* A frame of two rows was written twice to a table that held one row.
C18_Witness ==
    /\ pc = "written_twice" /\ op = "write_db_payments" /\ faults = 0
    /\ Len(dfs["payments"].rows) = 2
    /\ pre.db["payment_summary_table"].rows = <<StaleRow>>
    /\ Len(db["payment_summary_table"].rows) = 5

\* ------------------------------------------------------------------------
\* Connections over the run; rows that do not fit the schema
\* ------------------------------------------------------------------------

\* C19: at most one database connection is open at any moment of a run: no
\* connection opened by an operation is open when the next operation starts,
\* and none is open at the end of the run.  (Fails in the package:
\* execute_query never closes the connection it opens.)
C19_NoConnectionLeft == openConns = 0

\* The rows the last runner fetched.
FetchedRows == trace[4].stmt.row

\* C20: when the rows a query runner fetched do not have as many columns as
\* the runner's schema, building the frame fails and the runner returns
\* nothing; a frame a runner returns holds the fetched rows as they were,
\* under the declared column names.
C20_MismatchFails ==
    \A q \in Runners :
      (op = "calculate_" \o q /\ Len(trace) >= 4 /\ Ended(4, "fetchall", "none"))
        => /\ (FetchedRows # <<>> /\ Width(FetchedRows) # Arity(q))
                => /\ exc = "ValueError"
                   /\ ret.kind # "df"
                   /\ ~dfs[q].bound
           /\ ret.kind = "df"
                => /\ ret.df.rows = FetchedRows
                   /\ ret.df.columns = Columns(q)
                   /\ dfs[q] = ret.df

\* calculate_duration fetched two rows of five values for its four columns.
C20_Witness ==
    /\ op = "calculate_duration" /\ Len(trace) >= 4 /\ Ended(4, "fetchall", "none")
    /\ Len(FetchedRows) = 2 /\ Width(FetchedRows) = 5
    /\ exc = "ValueError" /\ ~dfs["duration"].bound

\* ------------------------------------------------------------------------
\* The three query runners in any order, against one database
\* ------------------------------------------------------------------------

\* The database the runners read: the three summary tables, and under each
\* runner's name the rows its query selects.
Sources ==
    { src \in [Runners -> UNION {Answers(q) : q \in Runners}] :
        \A q \in Runners : src[q] \in Answers(q) }

SourceDbs ==
    { AllEmpty @@ [q \in Runners |-> [exists |-> TRUE, rows |-> src[q]]] :
        src \in Sources }

RunnersInit ==
    /\ \E b \in Builds : variant = b[1] /\ gc = b[2]
    /\ pc = "runners"
    /\ fs = OutsideFs
    /\ db \in SourceDbs
    /\ openConns = 0
    /\ dfs = [q \in Runners |-> Unset]
    /\ op = "none"
    /\ trace = <<>>
    /\ log = <<>>
    /\ ret = NoneRet
    /\ exc = "none"
    /\ pre = [fs |-> fs, db |-> db, openConns |-> openConns]
    /\ faults = 0

\* One runner called, whichever have been called before it; what fetchall
\* returns is what the database holds for its query.
run_runner(q) ==
    /\ pc = "runners"
    /\ ~dfs[q].bound
    /\ Runner(q)
    /\ (Len(trace') >= 4 /\ trace'[4].call = "fetchall" /\ trace'[4].err = "none")
         => trace'[4].stmt.row = db[q].rows
    /\ op' = "calculate_" \o q
    /\ pre' = [fs |-> fs, db |-> db, openConns |-> openConns]
    /\ pc' = IF exc' = "none" THEN "runners" ELSE "crashed"
    /\ UNCHANGED <<variant, gc, fs, db>>

run_payments == run_runner("payments")
run_duration == run_runner("duration")
run_profitable_actors == run_runner("profitable_actors")

RunnersNext == run_payments \/ run_duration \/ run_profitable_actors

AnyOrderSpec == RunnersInit /\ [][RunnersNext]_vars

\* C21: the three query runners are independent and order-insensitive: in
\* whatever order they are called against one database, each runner that
\* returns, returns the frame of the rows the database holds for its query,
\* and the database is as it was.
C21_OrderInsensitive ==
    /\ db = pre.db
    /\ \A q \in Runners :
         dfs[q].bound => dfs[q] = DataFrame(Columns(q), db[q].rows)

\* The three runners returned, calculate_payments last, each with two rows.
C21_Witness ==
    /\ op = "calculate_payments"
    /\ \A q \in Runners : dfs[q].bound /\ Len(dfs[q].rows) = 2
    /\ dfs["payments"].rows = db["payments"].rows

\* ------------------------------------------------------------------------
\* update_notebook.py: the notebook regenerated from the ETL script
\* ------------------------------------------------------------------------

notebook_name   == <<"updated_notebook.ipynb">>
etl_script_path == <<"run_etl_as_script.py">>

\* The most top-level blocks a script holds, and the most cells a notebook
\* holds before the first run.
MaxBlocks == 3
MaxCells  == 2

\* The functions the notebook lists, in its order.
function_names ==
    <<"clear_folder", "manage_tables", "calculate_payments", "calculate_duration",
      "calculate_profitable_actors", "write_dataframe_to_db", "write_local_txt_output">>

\* The top-level blocks of a script: imports and configuration, a function
\* definition (two of the listed functions and one that is not listed), the
\* comment `# Main block starts here`, any other statement.
Block(kind, name) == [kind |-> kind, name |-> name]

ScriptBlocks ==
    {Block("import", ""), Block("marker", ""), Block("stmt", "")} \cup
    {Block("def", n) : n \in {"clear_folder", "manage_tables", "helper"}}

Scripts == UNION {[1..n -> ScriptBlocks] : n \in 0..MaxBlocks}

\* The first position of a block of the given kind; 0 when there is none.
FirstOf(script, kind) ==
    IF \E i \in 1..Len(script) : script[i].kind = kind
    THEN CHOOSE i \in 1..Len(script) :
           script[i].kind = kind /\ \A j \in 1..(i - 1) : script[j].kind # kind
    ELSE 0

\* parse_etl_script_with_ast_and_main: what precedes the first `def `, the
\* top-level function definitions by name, and the text from the marker
\* comment to the end.  A text is the sequence of its blocks; None and the
\* empty string are both the empty sequence, as both are falsy.
parse_etl_script_with_ast_and_main(script) ==
    [libraries_and_logging |->
        IF FirstOf(script, "def") = 0 THEN <<>>
        ELSE SubSeq(script, 1, FirstOf(script, "def") - 1),
     functions |->
        [n \in {script[i].name : i \in {j \in 1..Len(script) : script[j].kind = "def"}}
           |-> <<Block("def", n)>>],
     main_script |->
        IF FirstOf(script, "marker") = 0 THEN <<>>
        ELSE SubSeq(script, FirstOf(script, "marker"), Len(script))]

new_code_cell(source, section) ==
    [cell_type |-> "code", source |-> source, section |-> section]

new_markdown_cell(source) ==
    [cell_type |-> "markdown", source |-> source, section |-> ""]

\* A cell that is neither code nor markdown.
RawCell == [cell_type |-> "raw", source |-> <<>>, section |-> ""]

\* The content of a notebook file that is not JSON.
NotJSON == <<[cell_type |-> "not JSON", source |-> <<>>, section |-> ""]>>

\* What nbformat.read gives, or new_notebook() with no cells.
LoadCells(f) ==
    IF notebook_name \notin DOMAIN f THEN <<>>
    ELSE IF f[notebook_name].data = NotJSON THEN <<>>
    ELSE f[notebook_name].data

\* The cells of every kind kept.
KeepAllCells(cells) == cells

\* [cell for cell in notebook.cells if cell.cell_type == "markdown"]
KeepMarkdown(cells) == SelectSeq(cells, LAMBDA c : c.cell_type = "markdown")

\* The code cells of the listed functions from the i-th on, for those the
\* script defines.
RECURSIVE FunctionCells(_, _)
FunctionCells(sections, i) ==
    IF i > Len(function_names) THEN <<>>
    ELSE (IF function_names[i] \in DOMAIN sections.functions
          THEN <<new_code_cell(sections.functions[function_names[i]], function_names[i])>>
          ELSE <<>>)
         \o FunctionCells(sections, i + 1)

\* The code cells a run appends: libraries, functions, main block.
CodeCells(sections) ==
    (IF sections.libraries_and_logging # <<>>
     THEN <<new_code_cell(sections.libraries_and_logging, "libraries_and_logging")>>
     ELSE <<>>)
    \o FunctionCells(sections, 1)
    \o (IF sections.main_script # <<>>
        THEN <<new_code_cell(sections.main_script, "main_script")>>
        ELSE <<>>)

\* create_or_update_notebook: parse the script, load the notebook or start a
\* new one, drop the cells that are not markdown, append the code cells,
\* write the notebook.
create_or_update_notebook ==
    LET sections == parse_etl_script_with_ast_and_main(fs[etl_script_path].data)
        cells    == KeepMarkdown(LoadCells(fs)) \o CodeCells(sections)
    IN  fs' = (notebook_name :> FileNode(cells)) @@ fs

InitialCells ==
    UNION {[1..n -> {new_markdown_cell(<<Block("text", "a")>>),
                     new_markdown_cell(<<Block("text", "b")>>),
                     new_code_cell(<<Block("stmt", "")>>, ""), RawCell}]
             : n \in 0..MaxCells}

NotebookInit ==
    /\ variant = "script"
    /\ gc = "refcount"
    /\ pc = "notebook"
    /\ \E script \in Scripts :
         \E nb \in {<<>>} \cup {<<FileNode(c)>> : c \in InitialCells \cup {NotJSON}} :
           fs = (etl_script_path :> FileNode(script))
                  @@ (IF nb = <<>> THEN <<>> ELSE notebook_name :> nb[1])
    /\ db = AllEmpty
    /\ openConns = 0
    /\ dfs = [q \in Runners |-> Unset]
    /\ op = "none"
    /\ trace = <<>>
    /\ log = <<>>
    /\ ret = NoneRet
    /\ exc = "none"
    /\ pre = [fs |-> fs, db |-> db, openConns |-> openConns]
    /\ faults = 0

\* One run of update_notebook.py.
run_update_notebook(from, to) ==
    /\ pc = from
    /\ create_or_update_notebook
    /\ op' = "create_or_update_notebook"
    /\ pre' = [fs |-> fs, db |-> db, openConns |-> openConns]
    /\ pc' = to
    /\ UNCHANGED <<variant, gc, db, openConns, dfs, trace, log, ret, exc, faults>>

first_update == run_update_notebook("notebook", "updated_once")
second_update == run_update_notebook("updated_once", "updated_twice")
third_update == run_update_notebook("updated_twice", "updated_thrice")

NotebookNext == first_update \/ second_update \/ third_update

NotebookSpec == NotebookInit /\ [][NotebookNext]_vars

\* The sections a script has: text before the first function, each listed
\* function it defines, a main block.
SectionsOf(script) ==
    (IF FirstOf(script, "def") > 1 THEN {"libraries_and_logging"} ELSE {})
    \cup {script[i].name : i \in {j \in 1..Len(script) :
             script[j].kind = "def"
             /\ \E k \in 1..Len(function_names) : function_names[k] = script[j].name}}
    \cup (IF FirstOf(script, "marker") > 0 THEN {"main_script"} ELSE {})

CodeOf(cells) == SelectSeq(cells, LAMBDA c : c.cell_type = "code")

C23_AllOrNothing ==
    \A q \in Runners :
      op = "write_db_" \o q
        => /\ (\E i \in 1..Len(trace) : trace[i].call = "execute" /\ trace[i].err # "none")
                => CallsOf(trace, {"commit"}) = <<>>
           /\ \/ db[TableOf(q)].rows = pre.db[TableOf(q)].rows \o dfs[q].rows
              \/ db[TableOf(q)].rows = pre.db[TableOf(q)].rows
           /\ db[TableOf(q)].exists = pre.db[TableOf(q)].exists

\* The INSERT of the second of two rows failed and the table is as it was.
C23_Witness ==
    /\ op = "write_db_payments" /\ Len(dfs["payments"].rows) = 2
    /\ Len(trace) = 4 /\ Ended(2, "execute", "none") /\ Ended(3, "execute", "pyodbc.Error")
    /\ pre.db["payment_summary_table"].exists
    /\ db = pre.db

\* The three files the run writes.
OutputFiles == {Join(Reports, FileOf(q)) : q \in Runners}

\* The reports folder holds the three files of this run's frames, and
\* nothing else.
ReportsOfThisRun ==
    /\ isdir(fs, Reports)
    /\ Below(fs, Reports) = OutputFiles
    /\ \A q \in Runners : fs[Join(Reports, FileOf(q))] = FileNode(to_csv(dfs[q]))

NoFolderInit == Init /\ fs = OutsideFs

NoFolderSpec == NoFolderInit /\ [][Next]_vars

\* C25: on a run that starts with no reports folder, clear_folder logs an
\* error and creates nothing; the first write_local_txt_output that succeeds
\* creates the folder; and when nothing else fails the run ends with the
\* folder existing and holding the three output files.
C25_WriterCreatesFolder ==
    /\ op = "clear_folder"
         => (HasError(log) /\ exc = "none" /\ fs = pre.fs /\ Reports \notin DOMAIN fs)
    /\ (op = "write_txt_payments" /\ ~Failed(trace))
         => (Reports \notin DOMAIN pre.fs /\ isdir(fs, Reports))
    /\ (pc = "done" /\ faults = 0) => ReportsOfThisRun

\* A run that started with no reports folder ended with the three files.
C25_Witness ==
    /\ pc = "done" /\ faults = 0 /\ ReportsOfThisRun
    /\ Len(dfs["duration"].rows) = 1

\* C26: a query runner whose query succeeds and returns no row returns an
\* empty frame with the runner's declared columns and raises nothing, in the
\* package and in the script.  (Fails in the script: the frame built from no
\* row has no column, and assigning the declared names raises ValueError.)
C26_EmptyResult ==
    \A q \in Runners :
      (op = "calculate_" \o q /\ Len(trace) >= 4 /\ Ended(4, "fetchall", "none")
         /\ FetchedRows = <<>>)
        => /\ exc = "none"
           /\ ret = DfRet(DataFrame(Columns(q), <<>>))

\* ------------------------------------------------------------------------
\* The messages of a handler, and what a failure leaves undone
\* ------------------------------------------------------------------------

WriteDbOps  == {"write_db_" \o q : q \in Runners}
WriteTxtOps == {"write_txt_" \o q : q \in Runners}

\* The function behind a call of __main__.
HandlerOf(name) ==
    IF name \in WriteDbOps THEN "write_dataframe_to_db"
    ELSE IF name \in WriteTxtOps THEN "write_local_txt_output"
    ELSE name

StartOf(name) == Info(HandlerOf(name) \o ": start")

SuccessOf(name) ==
    IF name = "clear_folder" THEN Info("clear_folder: cleared")
    ELSE Info(HandlerOf(name) \o ": success")

ErrorOf(name) == Error(HandlerOf(name) \o ": error")

\* The last call before the connection was closed is a commit that returned.
CommittedLast ==
    /\ Len(trace) >= 2
    /\ trace[Len(trace)].call = "close"
    /\ Ended(Len(trace) - 1, "commit", "none")

\* C27: every invocation of clear_folder, manage_tables,
\* write_dataframe_to_db and write_local_txt_output logs its start message
\* first and then exactly one of its success message and its error message;
\* manage_tables and write_dataframe_to_db log success only after their
\* final commit has completed.
C27_StartThenOneOutcome ==
    \A name \in {"clear_folder", "manage_tables"} \cup WriteDbOps \cup WriteTxtOps :
      op = name =>
        /\ Len(log) = 2
        /\ log[1] = StartOf(name)
        /\ log[2] \in {SuccessOf(name), ErrorOf(name)}
        /\ (name \in {"manage_tables"} \cup WriteDbOps /\ \E i \in 1..Len(log) : log[i] = SuccessOf(name))
             => (~Failed(trace) /\ CommittedLast)

\* C28: once the three runners have returned, a failure of manage_tables or
\* of write_dataframe_to_db does not end the run before the file writes, and
\* a write_local_txt_output that succeeds leaves the file holding the rows of
\* its frame, whatever the tables hold.
C28_ExportIndependent ==
    /\ (\A q \in Runners : dfs[q].bound) => pc # "crashed"
    /\ \A q \in Runners :
         (op = "write_txt_" \o q /\ ~Failed(trace)) =>
           /\ ret = PathRet(Join(Reports, FileOf(q)))
           /\ fs[Join(Reports, FileOf(q))] = FileNode(to_csv(dfs[q]))

\* The payments file was written with both rows of the frame although the
\* table they were meant for is not there.
C28_Witness ==
    /\ op = "write_txt_payments"
    /\ ~Failed(trace)
    /\ Len(dfs["payments"].rows) = 2
    /\ ~db["payment_summary_table"].exists
    /\ db["payment_summary_table"].rows = <<>>
    /\ fs[Join(Reports, FileOf("payments"))] = FileNode(to_csv(dfs["payments"]))

\* The path a call of the trace was made on.
PathOf(i) == trace[i].stmt.columns

\* The first call of the last handler that raised.
FirstFailure == CHOOSE k \in 1..Len(trace) :
    trace[k].err # "none" /\ \A j \in 1..(k - 1) : trace[j].err = "none"

\* C29: when a deletion fails, clear_folder stops there: the children
\* deleted before stay deleted, the failing child and every child that the
\* listing had after it are left in the folder, the latter untouched, the
\* success message is not logged and the error is logged once.
C29_StopsAtFirstError ==
    (op = "clear_folder" /\ Failed(trace) /\ FirstFailure > 1) =>
      LET k == FirstFailure
          named == {PathOf(i) : i \in 2..k}
      IN  /\ k = Len(trace)
          /\ \A i \in 2..(k - 1) : PathOf(i) \notin DOMAIN fs
          /\ PathOf(k) \in DOMAIN fs /\ fs[PathOf(k)] = pre.fs[PathOf(k)]
          /\ \A c \in Children(pre.fs, Reports) \ named :
               /\ c \in DOMAIN fs
               /\ Below(fs, c) = Below(pre.fs, c)
               /\ \A p \in {c} \cup Below(pre.fs, c) : fs[p] = pre.fs[p]
          /\ log = <<StartOf("clear_folder"), ErrorOf("clear_folder")>>
          /\ exc = "none"

\* Of three children the first was deleted, the second could not be, and the
\* third was never tried.
C29_Witness ==
    /\ op = "clear_folder"
    /\ Cardinality(Children(pre.fs, Reports)) = 3
    /\ Len(trace) = 3
    /\ trace[2].err = "none"
    /\ trace[3].err # "none"
    /\ Cardinality(Children(fs, Reports)) = 2

====
